---- MODULE Spec2Model ----
(***************************************************************************)
(* Database resilience layer of ats-checker (src/database/db.py):          *)
(* the retry_with_backoff decorator, the CircuitBreaker singleton and the  *)
(* three operations built from them: create_db_engine, init_db and the     *)
(* get_session context manager.                                            *)
(*                                                                         *)
(* Time is time.time() in whole seconds.  A caller thread runs one         *)
(* operation at a time; the guarded actions (engine creation + probe,      *)
(* metadata.create_all, Session construction), the caller's scope and the  *)
(* session's commit / rollback are the environment: each either returns    *)
(* or raises an exception of one of ErrClasses.                            *)
(***************************************************************************)
EXTENDS Integers, Sequences, FiniteSets, TLC

\* ---------------------------------------------------------------- bounds
\* gated operations (create_db_engine, init_db, get_session) started per run
MaxCalls == 2
\* clock advances made by the environment outside time.sleep
MaxTicks == 2
\* direct circuit_breaker.record_failure() calls stop at this failure_count
MaxCount == 6

\* ------------------------------------------------------- program constants
\* CircuitBreaker.__init__ defaults, used by circuit_breaker = CircuitBreaker()
DefaultMaxFailures == 5
DefaultResetInterval == 300
\* self.reset_time = None
None == -1

Threads == {1, 2}
\* threads that run in the sequential specification
SeqThreads == {1}

GatedOps == {"create_db_engine", "init_db", "get_session"}
\* the two operations decorated as a whole by retry_with_backoff
WrappedOps == {"create_db_engine", "init_db"}
BreakerOps == {"is_open", "record_success", "record_failure"}

\* retry_with_backoff(retries=..., backoff_in_seconds=...) as applied
Retries(o) == IF o = "create_db_engine" THEN 5 ELSE 3
Backoff(o) == 1

\* except (OperationalError, TimeoutError, ConnectionError), where
\* TimeoutError is sqlalchemy.exc.TimeoutError (the import shadows the builtin)
TransientClasses == {"OperationalError", "TimeoutError", "ConnectionError"}
\* except Exception (create_db_engine, init_db, get_session) does not catch a
\* BaseException that is not an Exception; KeyboardInterrupt stands for these
\* (SystemExit, GeneratorExit, asyncio.CancelledError)
BaseOnlyClasses == {"KeyboardInterrupt"}
\* raise HTTPException(status_code=500, ...) in save_resume_to_db
HTTPError == "HTTPException"
\* exception classes the environment raises; IntegrityError stands for every
\* Exception outside the except clause of the retry wrapper
ErrClasses == TransientClasses \cup {"IntegrityError"} \cup BaseOnlyClasses

\* faulty variant: except Exception
IsTransientMutAll(cls) == TRUE
IsTransient(cls) == cls \in TransientClasses

\* except Exception as e
IsException(cls) == cls \notin BaseOnlyClasses

\* the exception a thread is handling or propagating: its class, where it
\* was raised, and (for the guarded action) the number of the invocation
\* that raised it
NoErr == [cls |-> "None", src |-> "none", at |-> 0]
Err(c, s, k) == [cls |-> c, src |-> s, at |-> k]
\* raise Exception("Circuit breaker is open. ...")
\* faulty variant: raise ConnectionError(...)
CircuitOpenClassMutTransient == "ConnectionError"
CircuitOpenClass == "Exception"
CircuitOpenErr == Err(CircuitOpenClass, "circuit", 0)

\* sleep_time = backoff_in_seconds * (2 ** (attempts - 1))
\* faulty variant: 2 ** attempts
SleepTimeMutOffByOne(backoff, att) == backoff * (2 ^ att)
SleepTime(backoff, att) == backoff * (2 ^ (att - 1))

\* if attempts > retries: raise
\* faulty variant: attempts >= retries
GiveUpMutEarly(att, retries) == att >= retries
\* faulty variant: one retry too many
GiveUpMutLate(att, retries) == att > retries + 1
GiveUp(att, retries) == att > retries

VARIABLES
  max_failures, reset_interval, failure_count, reset_time,  \* circuit_breaker
  now,                                                     \* time.time()
  pc, op, attempts, sleep_time, session, err, ret,         \* per thread
  invoked, slept, sess_log, entry_fc, reports,             \* per call history
  ncalls, nticks,
  loaded, fresh,                                           \* record_failure in steps
  read_time                                                \* time.time() read, not yet used

breaker == <<max_failures, reset_interval, failure_count, reset_time>>
locals == <<pc, op, attempts, sleep_time, session, err, ret>>
history == <<invoked, slept, sess_log, entry_fc, reports>>
\* the value a thread read for self.failure_count += 1 and has not stored
\* back yet, the threads whose read no reset of the count has followed, and
\* the value time.time() returned to a thread that has not used it yet
race == <<loaded, fresh, read_time>>
vars == <<breaker, now, locals, history, ncalls, nticks, race>>

\* ------------------------------------------------------- CircuitBreaker
\* is_open(): the value returned
\* faulty variant: time.time() <= self.reset_time
IsOpenRetMutInclusive(rt, t) == rt # None /\ t <= rt
\* faulty variant: the comparison is inverted
IsOpenRetMutInverted(rt, t) == rt # None /\ t > rt
IsOpenRet(rt, t) == rt # None /\ t < rt

\* is_open(): the lazy reset after the interval
\* faulty variant: no reset after the interval
IsOpenResetsMutNever(rt, t) == FALSE
IsOpenResets(rt, t) == rt # None /\ ~IsOpenRet(rt, t)

\* faulty variant: the reset clears reset_time but keeps failure_count
is_open_MutKeepsCount ==
  /\ reset_time' = IF IsOpenResets(reset_time, now) THEN None ELSE reset_time
  /\ fresh' = IF IsOpenResets(reset_time, now) THEN {} ELSE fresh
  /\ UNCHANGED <<failure_count, max_failures, reset_interval>>

\* faulty variant: a check made while open restarts the cooldown
is_open_MutExtends ==
  /\ reset_time' = IF IsOpenResets(reset_time, now) THEN None
                   ELSE IF reset_time # None THEN now + reset_interval
                   ELSE reset_time
  /\ failure_count' = IF IsOpenResets(reset_time, now) THEN 0 ELSE failure_count
  /\ fresh' = IF IsOpenResets(reset_time, now) THEN {} ELSE fresh
  /\ UNCHANGED <<max_failures, reset_interval>>

\* is_open() from the comparison on: tm is the value time.time() returned
is_open_at(tm) ==
  /\ reset_time' = IF IsOpenResets(reset_time, tm) THEN None ELSE reset_time
  /\ failure_count' = IF IsOpenResets(reset_time, tm) THEN 0 ELSE failure_count
  /\ fresh' = IF IsOpenResets(reset_time, tm) THEN {} ELSE fresh
  /\ UNCHANGED <<max_failures, reset_interval>>

\* is_open() with nothing between the call of time.time() and the comparison
is_open == is_open_at(now)

\* faulty variant: reset_time is not cleared
record_success_MutKeepsOpen ==
  /\ failure_count' = 0
  /\ fresh' = {}
  /\ UNCHANGED <<reset_time, max_failures, reset_interval>>

record_success ==
  /\ failure_count' = 0
  /\ reset_time' = None
  /\ fresh' = {}
  /\ UNCHANGED <<max_failures, reset_interval>>

\* record_failure(): the trip decision on the incremented count
\* faulty variant: failure_count > max_failures
TripsMutLate(fc, mf) == fc > mf
Trips(fc, mf) == fc >= mf

record_failure ==
  /\ failure_count' = failure_count + 1
  /\ reset_time' = IF Trips(failure_count + 1, max_failures)
                     THEN now + reset_interval
                     ELSE reset_time
  /\ UNCHANGED <<max_failures, reset_interval, fresh>>

\* ----------------------------------------------------------------- Init
Init ==
  /\ max_failures = DefaultMaxFailures
  /\ reset_interval = DefaultResetInterval
  /\ failure_count = 0
  /\ reset_time = None
  /\ now = 0
  /\ pc = [t \in Threads |-> "idle"]
  /\ op = [t \in Threads |-> "none"]
  /\ attempts = [t \in Threads |-> 0]
  /\ sleep_time = [t \in Threads |-> 0]
  /\ session = [t \in Threads |-> FALSE]
  /\ err = [t \in Threads |-> NoErr]
  /\ ret = [t \in Threads |-> FALSE]
  /\ invoked = [t \in Threads |-> 0]
  /\ slept = [t \in Threads |-> <<>>]
  /\ sess_log = [t \in Threads |-> <<>>]
  /\ entry_fc = [t \in Threads |-> 0]
  /\ reports = [t \in Threads |-> <<>>]
  /\ ncalls = 0
  /\ nticks = 0
  /\ loaded = [t \in Threads |-> None]
  /\ fresh = {}
  /\ read_time = [t \in Threads |-> None]

\* ------------------------------------------------------------ the caller
Set1(f, t, v) == [f EXCEPT ![t] = v]

\* the call of thread t has called record_success / record_failure
Reported(t, what) == reports' = Set1(reports, t, Append(reports[t], what))

\* a thread starts one of the gated operations
Call(t, o) ==
  /\ pc[t] = "idle"
  /\ ncalls < MaxCalls
  /\ pc' = Set1(pc, t, "check")
  /\ op' = Set1(op, t, o)
  /\ entry_fc' = Set1(entry_fc, t, failure_count)
  /\ ncalls' = ncalls + 1
  /\ UNCHANGED <<breaker, fresh, now, attempts, sleep_time, session, err, ret,
                 invoked, slept, sess_log, reports, nticks, loaded, read_time>>

\* wrapper's except clause: attempts += 1, then give up or compute sleep_time
WrapperCatches(t) ==
  /\ attempts' = Set1(attempts, t, attempts[t] + 1)
  /\ IF GiveUp(attempts[t] + 1, Retries(op[t]))
       THEN /\ pc' = Set1(pc, t, "raised")
            /\ UNCHANGED sleep_time
       ELSE /\ pc' = Set1(pc, t, "sleep")
            /\ sleep_time' =
                 Set1(sleep_time, t, SleepTime(Backoff(op[t]), attempts[t] + 1))

\* if circuit_breaker.is_open(): raise Exception("Circuit breaker is open...")
\* faulty variant: the result of is_open() is ignored
GateRejectsMutNever(r) == FALSE
GateRejects(r) == r

\* the open-circuit check at the head of create_db_engine, init_db and
\* get_session; the Exception raised is outside every try block, so nothing
\* is reported to the breaker; in create_db_engine and init_db it passes the
\* except clause of the retry wrapper, in get_session it is outside the wrapper.
\* is_open() runs here without another thread in between (callers one at a
\* time); CheckEnter and CheckCompare are the check of interleaved threads.
CheckOpen(t) ==
  /\ pc[t] = "check"
  /\ is_open
  /\ IF GateRejects(IsOpenRet(reset_time, now))
       THEN /\ err' = Set1(err, t, CircuitOpenErr)
            /\ IF op[t] \in WrappedOps /\ IsTransient(CircuitOpenClass)
                 THEN WrapperCatches(t)
                 ELSE /\ pc' = Set1(pc, t, "raised")
                      /\ UNCHANGED <<attempts, sleep_time>>
       ELSE /\ pc' = Set1(pc, t, "action")
            /\ UNCHANGED <<err, attempts, sleep_time>>
  /\ UNCHANGED <<now, op, session, ret, history, ncalls, nticks, loaded, read_time>>

\* the body of create_db_engine / init_db after the check: the guarded
\* action, the report to the breaker, and the wrapper's handling of the
\* exception that the body re-raises
ActionWrapped(t, outcome) ==
  /\ pc[t] = "action"
  /\ op[t] \in WrappedOps
  /\ invoked' = Set1(invoked, t, invoked[t] + 1)
  /\ IF outcome = "ok"
       THEN /\ record_success
            /\ Reported(t, "success")
            /\ pc' = Set1(pc, t, "returned")
            /\ err' = Set1(err, t, NoErr)
            /\ UNCHANGED <<attempts, sleep_time>>
       ELSE /\ IF IsException(outcome)
                 THEN record_failure /\ Reported(t, "failure")
                 ELSE UNCHANGED <<breaker, fresh, reports>>
            /\ err' = Set1(err, t, Err(outcome, "action", invoked[t] + 1))
            /\ IF IsTransient(outcome)
                 THEN WrapperCatches(t)
                 ELSE /\ pc' = Set1(pc, t, "raised")
                      /\ UNCHANGED <<attempts, sleep_time>>
  /\ UNCHANGED <<now, op, session, ret, slept, sess_log, entry_fc,
                 ncalls, nticks, loaded, read_time>>

\* get_session: _get_session_with_retry(), i.e. Session(engine) under the
\* retry wrapper; an exception that leaves the wrapper reaches the except
\* clause of get_session with session = None
ActionSession(t, outcome) ==
  /\ pc[t] = "action"
  /\ op[t] = "get_session"
  /\ invoked' = Set1(invoked, t, invoked[t] + 1)
  /\ IF outcome = "ok"
       THEN /\ session' = Set1(session, t, TRUE)
            /\ pc' = Set1(pc, t, "scope")
            /\ err' = Set1(err, t, NoErr)
            /\ UNCHANGED <<breaker, fresh, attempts, sleep_time, reports>>
       ELSE /\ err' = Set1(err, t, Err(outcome, "action", invoked[t] + 1))
            /\ UNCHANGED session
            /\ IF IsTransient(outcome)
                 THEN /\ WrapperCatches(t)
                      /\ IF GiveUp(attempts[t] + 1, Retries(op[t]))
                           THEN record_failure /\ Reported(t, "failure")
                           ELSE UNCHANGED <<breaker, fresh, reports>>
                 ELSE /\ IF IsException(outcome)
                           THEN record_failure /\ Reported(t, "failure")
                           ELSE UNCHANGED <<breaker, fresh, reports>>
                      /\ pc' = Set1(pc, t, "raised")
                      /\ UNCHANGED <<attempts, sleep_time>>
  /\ UNCHANGED <<now, op, ret, slept, sess_log, entry_fc, ncalls, nticks, loaded, read_time>>

\* time.sleep(sleep_time), then the while loop calls func again
Sleep(t) ==
  /\ pc[t] = "sleep"
  /\ now' = now + sleep_time[t]
  /\ slept' = Set1(slept, t, Append(slept[t], sleep_time[t]))
  /\ pc' = Set1(pc, t, IF op[t] \in WrappedOps THEN "check" ELSE "action")
  /\ UNCHANGED <<breaker, fresh, op, attempts, sleep_time, session, err, ret,
                 invoked, sess_log, entry_fc, reports, ncalls, nticks, loaded, read_time>>

\* where an exception raised in the try block of get_session, with a session,
\* goes: the except Exception clause, or past it to the finally block
Handler(cls) == IF IsException(cls) THEN "rollback" ELSE "close"

\* where get_session continues when the with-block ends: after the yield on
\* a normal exit, at the handler of the block's exception when it is thrown in
ScopeExit(outcome) == IF outcome = "ok" THEN "commit" ELSE Handler(outcome)

\* yield session: the caller's with-block runs and returns or raises, making
\* no call on the session that is logged
Scope(t, outcome) ==
  /\ pc[t] = "scope"
  /\ pc' = Set1(pc, t, ScopeExit(outcome))
  /\ IF outcome = "ok"
       THEN UNCHANGED err
       ELSE err' = Set1(err, t, Err(outcome, "scope", 0))
  /\ UNCHANGED <<breaker, fresh, now, op, attempts, sleep_time, session, ret,
                 history, ncalls, nticks, loaded, read_time>>

\* the calls save_resume_to_db makes on the session, in order
SavePoints == <<"add", "commit", "refresh">>
\* the calls made when call number k is the one that raises
SaveCalls(k) == SubSeq(SavePoints, 1, k)

\* yield session, where the with-block is ATSFunctions.save_resume_to_db:
\* session.add, session.commit, session.refresh; except Exception:
\* session.rollback and raise HTTPException.  Call number k of the block
\* does outcome (the calls before it succeed; k = 0 is Resume(...), before
\* the first call); rb is what the block's own session.rollback() does.  An
\* exception of the rollback leaves the except clause in place of the
\* HTTPException.
ScopeSave(t, k, outcome, rb) ==
  /\ pc[t] = "scope"
  /\ IF outcome = "ok"
       THEN /\ sess_log' = Set1(sess_log, t, sess_log[t] \o SavePoints)
            /\ pc' = Set1(pc, t, ScopeExit("ok"))
            /\ UNCHANGED err
       ELSE IF IsException(outcome)
         THEN /\ sess_log' = Set1(sess_log, t,
                       sess_log[t] \o SaveCalls(k) \o <<"rollback">>)
              /\ pc' = Set1(pc, t, ScopeExit(IF rb = "ok" THEN HTTPError ELSE rb))
              /\ err' = Set1(err, t,
                       Err(IF rb = "ok" THEN HTTPError ELSE rb, "scope", 0))
         ELSE /\ sess_log' = Set1(sess_log, t, sess_log[t] \o SaveCalls(k))
              /\ pc' = Set1(pc, t, ScopeExit(outcome))
              /\ err' = Set1(err, t, Err(outcome, "scope", 0))
  /\ UNCHANGED <<breaker, fresh, now, op, attempts, sleep_time, session, ret,
                 invoked, slept, entry_fc, reports, ncalls, nticks, loaded, read_time>>

\* the steps of upload_resume around save_resume_to_db: reading and storing
\* the file before it, check_ats_score after it
UploadStages == {"before", "after"}

\* yield session, where the with-block is ATSFunctions.upload_resume and
\* save_resume_to_db does not fail: outcome is what the steps of the stage
\* do.  except HTTPException: raise; except Exception: raise
\* HTTPException(500); these steps do not touch the session.
ScopeUpload(t, stage, outcome) ==
  /\ pc[t] = "scope"
  /\ sess_log' = Set1(sess_log, t,
         IF stage = "before" /\ outcome # "ok" THEN sess_log[t]
         ELSE sess_log[t] \o SavePoints)
  /\ IF outcome = "ok"
       THEN /\ pc' = Set1(pc, t, ScopeExit("ok"))
            /\ UNCHANGED err
       ELSE /\ pc' = Set1(pc, t,
                       ScopeExit(IF IsException(outcome) THEN HTTPError ELSE outcome))
            /\ err' = Set1(err, t,
                       Err(IF IsException(outcome) THEN HTTPError ELSE outcome,
                           "scope", 0))
  /\ UNCHANGED <<breaker, fresh, now, op, attempts, sleep_time, session, ret,
                 invoked, slept, entry_fc, reports, ncalls, nticks, loaded, read_time>>

\* session.commit(); circuit_breaker.record_success()
Commit(t, outcome) ==
  /\ pc[t] = "commit"
  /\ sess_log' = Set1(sess_log, t, Append(sess_log[t], "commit"))
  /\ IF outcome = "ok"
       THEN /\ record_success
            /\ Reported(t, "success")
            /\ pc' = Set1(pc, t, "close")
            /\ UNCHANGED err
       ELSE /\ pc' = Set1(pc, t, Handler(outcome))
            /\ err' = Set1(err, t, Err(outcome, "commit", 0))
            /\ UNCHANGED <<breaker, fresh, reports>>
  /\ UNCHANGED <<now, op, attempts, sleep_time, session, ret,
                 invoked, slept, entry_fc, ncalls, nticks, loaded, read_time>>

\* except Exception: session.rollback(); circuit_breaker.record_failure();
\* raise.  A rollback that raises leaves the except clause at once.
Rollback(t, outcome) ==
  /\ pc[t] = "rollback"
  /\ sess_log' = Set1(sess_log, t, Append(sess_log[t], "rollback"))
  /\ pc' = Set1(pc, t, "close")
  /\ IF outcome = "ok"
       THEN /\ record_failure
            /\ Reported(t, "failure")
            /\ UNCHANGED err
       ELSE /\ err' = Set1(err, t, Err(outcome, "rollback", 0))
            /\ UNCHANGED <<breaker, fresh, reports>>
  /\ UNCHANGED <<now, op, attempts, sleep_time, session, ret,
                 invoked, slept, entry_fc, ncalls, nticks, loaded, read_time>>

\* finally: if session: session.close()
Close(t) ==
  /\ pc[t] = "close"
  /\ sess_log' = Set1(sess_log, t, Append(sess_log[t], "close"))
  /\ pc' = Set1(pc, t, IF err[t] = NoErr THEN "returned" ELSE "raised")
  /\ UNCHANGED <<breaker, fresh, now, op, attempts, sleep_time, session, err, ret,
                 invoked, slept, entry_fc, reports, ncalls, nticks, loaded, read_time>>

\* the caller has the result or the exception; the frame is gone
Return(t) ==
  /\ pc[t] \in {"returned", "raised"}
  /\ pc' = Set1(pc, t, "idle")
  /\ op' = Set1(op, t, "none")
  /\ attempts' = Set1(attempts, t, 0)
  /\ sleep_time' = Set1(sleep_time, t, 0)
  /\ session' = Set1(session, t, FALSE)
  /\ err' = Set1(err, t, NoErr)
  /\ ret' = Set1(ret, t, FALSE)
  /\ invoked' = Set1(invoked, t, 0)
  /\ slept' = Set1(slept, t, <<>>)
  /\ sess_log' = Set1(sess_log, t, <<>>)
  /\ entry_fc' = Set1(entry_fc, t, 0)
  /\ reports' = Set1(reports, t, <<>>)
  /\ UNCHANGED <<breaker, fresh, now, ncalls, nticks, loaded, read_time>>

\* the routes of atsCheckerApi.py
EndpointOps == {"list_resumes", "get_resume", "upload_resume"}

\* a request to one of the routes: session = Depends(get_session) calls
\* get_session(), which returns the context manager without running any of
\* its body; the endpoint gets that object for a Session, its first use of
\* it raises AttributeError and except Exception turns that into
\* HTTPException(500).  The breaker is neither read nor written.
Endpoint(t, e) ==
  /\ pc[t] = "idle"
  /\ ncalls < MaxCalls
  /\ pc' = Set1(pc, t, "raised")
  /\ op' = Set1(op, t, e)
  /\ err' = Set1(err, t, Err(HTTPError, "endpoint", 0))
  /\ ncalls' = ncalls + 1
  /\ UNCHANGED <<breaker, fresh, now, attempts, sleep_time, session, ret,
                 history, nticks, loaded, read_time>>

\* direct calls of the breaker's methods
IsOpenCall(t) ==
  /\ pc[t] = "idle"
  /\ is_open
  /\ ret' = Set1(ret, t, IsOpenRet(reset_time, now))
  /\ op' = Set1(op, t, "is_open")
  /\ pc' = Set1(pc, t, "returned")
  /\ entry_fc' = Set1(entry_fc, t, failure_count)
  /\ UNCHANGED <<now, attempts, sleep_time, session, err, invoked, slept,
                 sess_log, reports, ncalls, nticks, loaded, read_time>>

RecordSuccessCall(t) ==
  /\ pc[t] = "idle"
  /\ record_success
  /\ op' = Set1(op, t, "record_success")
  /\ pc' = Set1(pc, t, "returned")
  /\ entry_fc' = Set1(entry_fc, t, failure_count)
  /\ UNCHANGED <<now, attempts, sleep_time, session, err, ret, invoked,
                 slept, sess_log, reports, ncalls, nticks, loaded, read_time>>

RecordFailureCall(t) ==
  /\ pc[t] = "idle"
  /\ failure_count < MaxCount
  /\ record_failure
  /\ ret' = Set1(ret, t, Trips(failure_count + 1, max_failures))
  /\ op' = Set1(op, t, "record_failure")
  /\ pc' = Set1(pc, t, "returned")
  /\ entry_fc' = Set1(entry_fc, t, failure_count)
  /\ UNCHANGED <<now, attempts, sleep_time, session, err, invoked, slept,
                 sess_log, reports, ncalls, nticks, loaded, read_time>>

\* time passes outside time.sleep
TickSteps == {1, reset_interval - 1}
Tick(d) ==
  /\ nticks < MaxTicks
  /\ now' = now + d
  /\ nticks' = nticks + 1
  /\ UNCHANGED <<breaker, locals, history, ncalls, race>>

Outcomes == {"ok"} \cup ErrClasses

Step(t) ==
  \/ \E o \in GatedOps : Call(t, o)
  \/ CheckOpen(t)
  \/ \E x \in Outcomes : ActionWrapped(t, x)
  \/ \E x \in Outcomes : ActionSession(t, x)
  \/ Sleep(t)
  \/ \E x \in Outcomes : Scope(t, x)
  \/ \E k \in 0..Len(SavePoints) : \E x, rb \in Outcomes : ScopeSave(t, k, x, rb)
  \/ \E st \in UploadStages : \E x \in Outcomes : ScopeUpload(t, st, x)
  \/ \E x \in Outcomes : Commit(t, x)
  \/ \E x \in Outcomes : Rollback(t, x)
  \/ Close(t)
  \/ Return(t)
  \/ \E e \in EndpointOps : Endpoint(t, e)
  \/ IsOpenCall(t)
  \/ RecordSuccessCall(t)
  \/ RecordFailureCall(t)

Next ==
  \/ \E t \in SeqThreads : Step(t)
  \/ \E d \in TickSteps : Tick(d)

Spec == Init /\ [][Next]_vars

\* -------------------------------------------------- concurrent callers
\* Threads that each enter `with get_session() as session:` share the one
\* circuit_breaker, which has no lock.  (The routes of atsCheckerApi.py are
\* not among them: see Endpoint.)  A thread can be switched out when a call
\* it makes returns, so the call of time.time() divides record_failure and
\* is_open: the trip test with the call, then the store of reset_time; the
\* first test of is_open with the call, then the comparison.  The read and
\* the write of self.failure_count += 1 are two steps as well: an interpreter
\* that switches between any two bytecodes (CPython before 3.10, the
\* free-threaded build) separates them, CPython 3.11 does not.

\* failure counts the breaker can have, closed, when the callers start
InitCounts == {0, max_failures - 2, max_failures - 1}

InitConc ==
  /\ max_failures = DefaultMaxFailures
  /\ reset_interval = DefaultResetInterval
  /\ failure_count \in InitCounts
  /\ reset_time = None
  /\ now = 0
  /\ pc = [t \in Threads |-> "idle"]
  /\ op = [t \in Threads |-> "none"]
  /\ attempts = [t \in Threads |-> 0]
  /\ sleep_time = [t \in Threads |-> 0]
  /\ session = [t \in Threads |-> FALSE]
  /\ err = [t \in Threads |-> NoErr]
  /\ ret = [t \in Threads |-> FALSE]
  /\ invoked = [t \in Threads |-> 0]
  /\ slept = [t \in Threads |-> <<>>]
  /\ sess_log = [t \in Threads |-> <<>>]
  /\ entry_fc = [t \in Threads |-> 0]
  /\ reports = [t \in Threads |-> <<>>]
  /\ ncalls = 0
  /\ nticks = 0
  /\ loaded = [t \in Threads |-> None]
  /\ fresh = {}
  /\ read_time = [t \in Threads |-> None]

\* a caller enters get_session; callers keep arriving while reset_time is
\* set, and MaxCalls of them arrive while it is not
CallSession(t) ==
  /\ pc[t] = "idle"
  /\ ncalls < MaxCalls \/ reset_time # None
  /\ pc' = Set1(pc, t, "check")
  /\ op' = Set1(op, t, "get_session")
  /\ entry_fc' = Set1(entry_fc, t, failure_count)
  /\ ncalls' = IF ncalls < MaxCalls THEN ncalls + 1 ELSE ncalls
  /\ UNCHANGED <<breaker, fresh, now, attempts, sleep_time, session, err, ret,
                 invoked, slept, sess_log, reports, nticks, loaded, read_time>>

\* session.commit() after the yield, up to its return; the report of the
\* success is the next step of the thread
CommitC(t, outcome) ==
  /\ pc[t] = "commit"
  /\ sess_log' = Set1(sess_log, t, Append(sess_log[t], "commit"))
  /\ IF outcome = "ok"
       THEN /\ pc' = Set1(pc, t, "rs")
            /\ UNCHANGED err
       ELSE /\ pc' = Set1(pc, t, Handler(outcome))
            /\ err' = Set1(err, t, Err(outcome, "commit", 0))
  /\ UNCHANGED <<breaker, fresh, now, op, attempts, sleep_time, session, ret,
                 invoked, slept, entry_fc, reports, ncalls, nticks, loaded, read_time>>

\* circuit_breaker.record_success() after the commit
ReportSuccess(t) ==
  /\ pc[t] = "rs"
  /\ record_success
  /\ Reported(t, "success")
  /\ pc' = Set1(pc, t, "close")
  /\ UNCHANGED <<now, op, attempts, sleep_time, session, err, ret,
                 invoked, slept, sess_log, entry_fc, ncalls, nticks, loaded, read_time>>

\* Rollback, with the report of the failure left to the steps below
RollbackC(t, outcome) ==
  /\ pc[t] = "rollback"
  /\ sess_log' = Set1(sess_log, t, Append(sess_log[t], "rollback"))
  /\ IF outcome = "ok"
       THEN /\ pc' = Set1(pc, t, "rf_load")
            /\ UNCHANGED err
       ELSE /\ pc' = Set1(pc, t, "close")
            /\ err' = Set1(err, t, Err(outcome, "rollback", 0))
  /\ UNCHANGED <<breaker, fresh, now, op, attempts, sleep_time, session, ret,
                 invoked, slept, entry_fc, reports, ncalls, nticks, loaded, read_time>>

\* self.failure_count += 1: the read
RFLoad(t) ==
  /\ pc[t] = "rf_load"
  /\ failure_count < MaxCount
  /\ loaded' = Set1(loaded, t, failure_count)
  /\ fresh' = fresh \cup {t}
  /\ pc' = Set1(pc, t, "rf_store")
  /\ UNCHANGED <<breaker, now, op, attempts, sleep_time, session, err, ret,
                 history, ncalls, nticks, read_time>>

\* self.failure_count += 1: the write of the value read plus one
RFStore(t) ==
  /\ pc[t] = "rf_store"
  /\ failure_count' = loaded[t] + 1
  /\ loaded' = Set1(loaded, t, None)
  /\ fresh' = fresh \ {t}
  /\ Reported(t, "failure")
  /\ pc' = Set1(pc, t, "rf_trip")
  /\ UNCHANGED <<max_failures, reset_interval, reset_time, now, op, attempts,
                 sleep_time, session, err, ret, invoked, slept, sess_log,
                 entry_fc, ncalls, nticks, read_time>>

\* if self.failure_count >= self.max_failures: the test; when it fails
\* record_failure returns and get_session raises, to the finally block; when
\* it passes the thread calls time.time() and holds the value returned
RFTrip(t) ==
  /\ pc[t] = "rf_trip"
  /\ IF Trips(failure_count, max_failures)
       THEN /\ pc' = Set1(pc, t, "rf_open")
            /\ read_time' = Set1(read_time, t, now)
       ELSE /\ pc' = Set1(pc, t, IF session[t] THEN "close" ELSE "raised")
            /\ UNCHANGED read_time
  /\ UNCHANGED <<breaker, fresh, now, op, attempts, sleep_time, session, err,
                 ret, history, ncalls, nticks, loaded>>

\* self.reset_time = time.time() + self.reset_interval: the sum and the
\* store, with the value time.time() returned in RFTrip; then get_session
\* raises, to the finally block
RFOpen(t) ==
  /\ pc[t] = "rf_open"
  /\ reset_time' = read_time[t] + reset_interval
  /\ read_time' = Set1(read_time, t, None)
  /\ pc' = Set1(pc, t, IF session[t] THEN "close" ELSE "raised")
  /\ UNCHANGED <<max_failures, reset_interval, failure_count, fresh, now, op,
                 attempts, sleep_time, session, err, ret, history, ncalls,
                 nticks, loaded>>

\* is_open() raised TypeError: time.time() < None
TypeErr == Err("TypeError", "is_open", 0)

\* the open-circuit check on the shared breaker, first part:
\* if self.reset_time is not None, and the call of time.time(), whose value
\* the thread holds; when reset_time is None is_open() returns False and the
\* call goes on
CheckEnter(t) ==
  /\ pc[t] = "check"
  /\ pc' = Set1(pc, t, IF reset_time # None THEN "check_time"
                       ELSE IF GateRejects(FALSE) THEN "raised" ELSE "action")
  /\ read_time' = IF reset_time # None THEN Set1(read_time, t, now) ELSE read_time
  /\ err' = IF reset_time = None /\ GateRejects(FALSE)
              THEN Set1(err, t, CircuitOpenErr) ELSE err
  /\ UNCHANGED <<breaker, fresh, now, op, attempts, sleep_time, session, ret,
                 history, ncalls, nticks, loaded>>

\* second part: time.time() < self.reset_time, with the value time.time()
\* returned in CheckEnter and reset_time read again.  If another thread has
\* cleared it the comparison raises TypeError, outside the try block of
\* get_session; otherwise as is_open and the check above.
CheckCompare(t) ==
  /\ pc[t] = "check_time"
  /\ read_time' = Set1(read_time, t, None)
  /\ IF reset_time = None
       THEN /\ err' = Set1(err, t, TypeErr)
            /\ pc' = Set1(pc, t, "raised")
            /\ UNCHANGED <<breaker, fresh>>
       ELSE /\ is_open_at(read_time[t])
            /\ IF GateRejects(IsOpenRet(reset_time, read_time[t]))
                 THEN /\ err' = Set1(err, t, CircuitOpenErr)
                      /\ pc' = Set1(pc, t, "raised")
                 ELSE /\ pc' = Set1(pc, t, "action")
                      /\ UNCHANGED err
  /\ UNCHANGED <<now, op, attempts, sleep_time, session, ret, history,
                 ncalls, nticks, loaded>>

\* the clock reaches the end of the cooldown
Expire ==
  /\ reset_time # None
  /\ now < reset_time
  /\ now' = reset_time
  /\ UNCHANGED <<breaker, locals, history, ncalls, nticks, race>>

\* Session(engine) opens no connection and succeeds; the caller's with-block
\* (which makes no call on the session), the commit and the rollback succeed
\* or raise
ConcOutcomes == {"ok", "OperationalError", "KeyboardInterrupt"}

StepC(t) ==
  \/ CallSession(t)
  \/ CheckEnter(t)
  \/ CheckCompare(t)
  \/ ActionSession(t, "ok")
  \/ \E x \in ConcOutcomes : Scope(t, x)
  \/ \E x \in ConcOutcomes : CommitC(t, x)
  \/ ReportSuccess(t)
  \/ \E x \in ConcOutcomes : RollbackC(t, x)
  \/ RFLoad(t)
  \/ RFStore(t)
  \/ RFTrip(t)
  \/ RFOpen(t)
  \/ Close(t)
  \/ Return(t)

\* callers of get_session and requests to the routes, on any thread
NextConc ==
  \/ \E t \in Threads : StepC(t)
  \/ \E t \in Threads : \E e \in EndpointOps : Endpoint(t, e)
  \/ \E d \in TickSteps : Tick(d)
  \/ Expire

SpecConc == InitConc /\ [][NextConc]_vars

\* threads that do nothing but call get_session (a request to a route never
\* consults the breaker), with the clock moving only to the end of a cooldown
NextLive ==
  \/ \E t \in Threads : StepC(t)
  \/ Expire

\* every calling thread is scheduled and the clock runs
SpecLive ==
  /\ InitConc
  /\ [][NextLive]_vars
  /\ \A t \in Threads : WF_vars(StepC(t))
  /\ WF_vars(Expire)

\* ================================================================ claims
\* the breaker is OPEN: reset_time is set and the clock is before it
BreakerOpen == reset_time # None /\ now < reset_time
\* the breaker was opened and its cooldown has elapsed
CooldownElapsed == reset_time # None /\ now >= reset_time

\* steps of thread t, recognised from the two states of the step
GateStep(t) == pc[t] = "check" /\ pc'[t] # "check"
InvokeStep(t) == invoked'[t] = invoked[t] + 1
DirectStep(t, o) == pc[t] = "idle" /\ pc'[t] = "returned" /\ op'[t] = o

\* C1: while the breaker is OPEN, the open-circuit check of create_db_engine,
\* init_db and get_session ends the call with the circuit-open error and
\* without invoking the guarded action, and no step that invokes a guarded
\* action is taken in a state where the breaker is OPEN.
C1_NoInvocationWhileOpen ==
  [][\A t \in Threads :
       /\ InvokeStep(t) => ~BreakerOpen
       /\ (GateStep(t) /\ BreakerOpen) =>
            /\ pc'[t] = "raised"
            /\ err'[t] = CircuitOpenErr
            /\ invoked'[t] = invoked[t]]_vars

\* C1 witness: get_session was called while OPEN and rejected at its check
C1_Witness ==
  /\ pc[1] = "raised" /\ op[1] = "get_session"
  /\ err[1] = CircuitOpenErr /\ invoked[1] = 0
  /\ BreakerOpen

\* C2: a record_failure that brings failure_count to max_failures or above
\* sets reset_time to now + reset_interval, which opens the breaker, and an
\* is_open() call made while now < reset_time returns True and leaves the
\* breaker as it is.
C2_TripOpens ==
  [][/\ (failure_count' = failure_count + 1 /\ failure_count' >= max_failures)
          => (reset_time' = now + reset_interval /\ BreakerOpen')
     /\ \A t \in Threads :
          (DirectStep(t, "is_open") /\ BreakerOpen)
             => (ret'[t] = TRUE /\ UNCHANGED breaker)]_vars

\* C2 witness: max_failures failures were reported from failure_count = 0,
\* time passed, and is_open() called one second before reset_time returned True
C2_Witness ==
  /\ pc[1] = "returned" /\ op[1] = "is_open" /\ ret[1] = TRUE
  /\ failure_count = max_failures
  /\ ncalls = 0
  /\ now = reset_time - 1

\* C3: an is_open() call made when the cooldown has elapsed returns False and
\* leaves failure_count = 0 and reset_time = None; the open-circuit check of a
\* gated operation made then lets the guarded action run; a step in which
\* only the clock moves never changes the breaker.
C3_LazyReset ==
  [][/\ \A t \in Threads :
          /\ (DirectStep(t, "is_open") /\ CooldownElapsed)
               => (ret'[t] = FALSE /\ failure_count' = 0 /\ reset_time' = None)
          /\ (GateStep(t) /\ CooldownElapsed)
               => (pc'[t] = "action" /\ failure_count' = 0 /\ reset_time' = None)
     /\ now' # now => UNCHANGED breaker]_vars

\* C3 witness: is_open() called exactly at reset_time on a tripped breaker
\* returned False and reset it
C3_Witness ==
  /\ pc[1] = "returned" /\ op[1] = "is_open" /\ ret[1] = FALSE
  /\ entry_fc[1] >= max_failures
  /\ now = reset_interval
  /\ failure_count = 0 /\ reset_time = None

\* a step of thread t that reports a success to the breaker
SuccessStep(t) ==
  \/ DirectStep(t, "record_success")
  \/ reports'[t] = Append(reports[t], "success")

\* C4: record_success(), in whatever state it is called, leaves
\* failure_count = 0 and reset_time = None and changes neither max_failures
\* nor reset_interval.
C4_SuccessHeals ==
  [][\A t \in Threads :
       SuccessStep(t) =>
         /\ failure_count' = 0
         /\ reset_time' = None
         /\ UNCHANGED <<max_failures, reset_interval, now>>]_vars

\* C4 witness: record_success() was called on an OPEN breaker before the
\* cooldown elapsed
C4_Witness ==
  /\ pc[1] = "returned" /\ op[1] = "record_success"
  /\ entry_fc[1] >= max_failures
  /\ now < reset_interval
  /\ failure_count = 0 /\ reset_time = None

\* every invocation of the guarded action made so far by the call of thread t
\* failed with a transient error that the wrapper caught
OnlyTransient(t) == invoked[t] >= 1 /\ attempts[t] = invoked[t]

\* C5: a call of create_db_engine or init_db that starts with
\* failure_count = 0 and whose guarded action has failed transiently n times,
\* 1 <= n <= retries, and in no other way, has not raised: it goes on to the
\* invocation that succeeds; and when such a call has returned,
\* failure_count = 0.
C5_RetryThenSuccess ==
  \A t \in Threads :
    (op[t] \in WrappedOps /\ entry_fc[t] = 0) =>
      /\ pc[t] = "returned" => failure_count = 0
      /\ ~(pc[t] = "raised" /\ OnlyTransient(t)
             /\ attempts[t] <= Retries(op[t]))

\* C10: when a call of create_db_engine or init_db that started with
\* failure_count = 0 has raised after nothing but transient failures of its
\* guarded action, the exception is the transient error of the last
\* invocation and retries + 1 invocations were made.
C10_ExhaustedIsTransient ==
  \A t \in Threads :
    (op[t] \in WrappedOps /\ entry_fc[t] = 0
       /\ pc[t] = "raised" /\ OnlyTransient(t)) =>
      /\ err[t].src = "action"
      /\ err[t].cls \in TransientClasses
      /\ invoked[t] = Retries(op[t]) + 1

\* C6: in get_session, close is the last call on the session and is made
\* once; a use that had a session and returned made commit and then close as
\* its last two calls, and one that raised (in the scope, the commit or the
\* rollback) made rollback and then close as its last two calls.
C6_SessionReleased ==
  \A t \in Threads :
    /\ \A i \in 1..Len(sess_log[t]) :
         sess_log[t][i] = "close" =>
           (i = Len(sess_log[t]) /\ pc[t] \in {"returned", "raised"})
    /\ (session[t] /\ pc[t] \in {"returned", "raised"}) =>
         /\ Len(sess_log[t]) >= 2
         /\ sess_log[t][Len(sess_log[t])] = "close"
         /\ sess_log[t][Len(sess_log[t]) - 1] =
              IF pc[t] = "returned" THEN "commit" ELSE "rollback"

RECURSIVE Doubled(_, _)
Doubled(b, k) == IF k <= 1 THEN b ELSE 2 * Doubled(b, k - 1)

\* C7: the k-th sleep of a call lasts backoff_in_seconds doubled k - 1 times,
\* for every k up to retries, and the sleep pending after the k-th transient
\* failure is that one.
C7_BackoffExact ==
  \A t \in Threads :
    /\ op[t] \in GatedOps => Len(slept[t]) <= Retries(op[t])
    /\ \A k \in 1..Len(slept[t]) : slept[t][k] = Doubled(Backoff(op[t]), k)
    /\ pc[t] = "sleep" =>
         /\ attempts[t] = Len(slept[t]) + 1
         /\ sleep_time[t] = Doubled(Backoff(op[t]), attempts[t])

\* C7 witness: create_db_engine has slept retries = 5 times
C7_Witness ==
  /\ op[1] = "create_db_engine"
  /\ slept[1] = <<1, 2, 4, 8, 16>>

\* the retry wrapper gave up: the call raised a transient error of the action
Exhausted(t) ==
  pc[t] = "raised" /\ err[t].src = "action" /\ err[t].cls \in TransientClasses

\* C8 as stated: the wrapper gives up after retries consecutive failures and
\* raises the last of them.
C8_GivesUpAfterRetriesFailures ==
  \A t \in Threads :
    Exhausted(t) => (invoked[t] = Retries(op[t]) /\ err[t].at = invoked[t])

\* C8 amended: the wrapper gives up after retries + 1 consecutive transient
\* failures (the first attempt and retries retries, with retries sleeps) and
\* raises the error of the last invocation; it never counts more failures.
C8_GivesUpAfterRetriesPlusOne ==
  \A t \in Threads :
    /\ Exhausted(t) =>
         /\ invoked[t] = Retries(op[t]) + 1
         /\ attempts[t] = invoked[t]
         /\ Len(slept[t]) = Retries(op[t])
         /\ err[t].at = invoked[t]
    /\ op[t] \in GatedOps =>
         /\ attempts[t] <= Retries(op[t]) + 1
         /\ attempts[t] = Retries(op[t]) + 1 => Exhausted(t)

\* C8 witness: init_db failed with TimeoutError on all four invocations
C8_Witness ==
  /\ op[1] = "init_db" /\ Exhausted(1)
  /\ err[1] = Err("TimeoutError", "action", 4)
  /\ slept[1] = <<1, 2, 4>>

\* C9: an exception of the guarded action outside the transient classes ends
\* the call at once: it is the error of the last invocation, and every sleep
\* and every counted attempt belongs to an earlier, transient failure.
C9_NonTransientImmediate ==
  \A t \in Threads :
    (err[t].src = "action" /\ err[t].cls \notin TransientClasses) =>
      /\ pc[t] = "raised"
      /\ err[t].at = invoked[t]
      /\ attempts[t] = invoked[t] - 1
      /\ Len(slept[t]) = invoked[t] - 1

\* C9 witness: the third invocation raised IntegrityError after two transient
\* failures
C9_Witness ==
  /\ pc[1] = "raised"
  /\ err[1] = Err("IntegrityError", "action", 3)
  /\ attempts[1] = 2 /\ Len(slept[1]) = 2

\* C11: the circuit-open error ends the call in the attempt that raised it:
\* the wrapper does not count it as an attempt and no sleep follows it, so
\* every counted attempt and every sleep of the call belongs to an earlier
\* transient failure of the guarded action.
C11_CircuitOpenNotRetried ==
  \A t \in Threads :
    err[t].src = "circuit" =>
      /\ pc[t] = "raised"
      /\ attempts[t] = invoked[t]
      /\ Len(slept[t]) = invoked[t]

\* C11 witness: create_db_engine was rejected by the check of a retry, after
\* five transient failures and five sleeps
C11_Witness ==
  /\ pc[1] = "raised" /\ op[1] = "create_db_engine"
  /\ err[1] = CircuitOpenErr
  /\ attempts[1] = 5 /\ Len(slept[1]) = 5

\* C12: a call that raised a non-transient error of its guarded action or of
\* the caller's scope, with no transient failure before it, has reported no
\* failure to the breaker and has not raised failure_count.
C12_OnlyTransientCounts ==
  \A t \in Threads :
    (pc[t] = "raised" /\ attempts[t] = 0
       /\ err[t].src \in {"action", "scope"}
       /\ err[t].cls \notin TransientClasses) =>
      /\ reports[t] = <<>>
      /\ failure_count <= entry_fc[t]

\* a get_session call of thread t that passed the open-circuit check has ended
SessionUseEnded(t) ==
  /\ op[t] = "get_session"
  /\ pc[t] \in {"returned", "raised"}
  /\ err[t].src # "circuit"

\* C15: a use of get_session that passed the open-circuit check has, when it
\* ends, reported exactly one outcome to the breaker: one record_success and
\* no record_failure when it returns, one record_failure and no
\* record_success when it raises.
C15_OneReportPerUse ==
  \A t \in Threads :
    SessionUseEnded(t) =>
      /\ pc[t] = "returned" => reports[t] = <<"success">>
      /\ pc[t] = "raised" => reports[t] = <<"failure">>

\* a call of a gated operation made in this state would be rejected
Suppressing == GateRejects(IsOpenRet(reset_time, now))

\* C16 as stated: reset_time is set exactly when the breaker is suppressing
\* calls.
C16_SetIffSuppressing == (reset_time # None) <=> Suppressing

\* C16 amended: the breaker suppresses calls exactly when reset_time is set
\* and the clock is before it (a reset_time whose time has passed stays set,
\* suppressing nothing, until the next is_open()); and reset_time is cleared
\* only by a success report or by an is_open() made at or after reset_time.
C16_SetAndFutureIffSuppressing ==
  /\ [](Suppressing <=> (reset_time # None /\ now < reset_time))
  /\ [][(reset_time # None /\ reset_time' = None) =>
          \E t \in Threads :
            \/ SuccessStep(t)
            \/ /\ CooldownElapsed
               /\ GateStep(t) \/ DirectStep(t, "is_open")]_vars

\* C16 witness: a call reaches its open-circuit check with reset_time still
\* set although the cooldown has elapsed
C16_Witness ==
  /\ pc[1] = "check"
  /\ reset_time # None /\ now >= reset_time
  /\ ~Suppressing

\* C17: a call of a retry_with_backoff-wrapped operation never invokes the
\* operation more than retries + 1 times nor sleeps more than retries times,
\* an unfinished call can always take a step and every step moves it strictly
\* towards its end (so the call returns or raises), and a call that
\* returns after n transient failures has invoked the operation n + 1 times,
\* slept n times (1, 2, 4, ... seconds) and reported n failures followed by
\* one success.
C17_Measure(t) ==
  3 * (Retries(op[t]) + 1 - invoked[t])
    + CASE pc[t] = "check" -> 2
        [] pc[t] = "action" -> 1
        [] pc[t] = "sleep" -> 3
        [] OTHER -> 0

C17_BoundedRetry ==
  /\ [](\A t \in Threads :
         op[t] \in WrappedOps =>
           /\ invoked[t] <= Retries(op[t]) + 1
           /\ Len(slept[t]) <= Retries(op[t])
           /\ pc[t] \in {"check", "action", "sleep", "returned", "raised"}
           /\ pc[t] \in {"check", "action", "sleep"} => ENABLED Step(t)
           /\ pc[t] = "returned" =>
                /\ attempts[t] <= Retries(op[t])
                /\ invoked[t] = attempts[t] + 1
                /\ Len(slept[t]) = attempts[t]
                /\ \A k \in 1..Len(slept[t]) :
                     slept[t][k] = Doubled(Backoff(op[t]), k)
                /\ Len(reports[t]) = attempts[t] + 1
                /\ \A k \in 1..attempts[t] : reports[t][k] = "failure"
                /\ reports[t][attempts[t] + 1] = "success")
  /\ [][\A t \in Threads :
          (op[t] \in WrappedOps /\ pc[t] \in {"check", "action", "sleep"}
             /\ <<pc[t], attempts[t], invoked[t]>>' #
                  <<pc[t], attempts[t], invoked[t]>>) =>
            C17_Measure(t)' < C17_Measure(t)]_vars

\* C17 witness: init_db failed transiently twice and then succeeded
C17_Witness ==
  /\ op[1] = "init_db" /\ pc[1] = "returned"
  /\ attempts[1] = 2 /\ invoked[1] = 3
  /\ slept[1] = <<1, 2>>
  /\ reports[1] = <<"failure", "failure", "success">>

\* C18: with the breaker operations atomic, failure_count is never negative
\* and a breaker whose reset_time is None has failure_count < max_failures
\* (failure_count >= max_failures implies reset_time is set).
C18_ClosedBelowThreshold ==
  /\ failure_count >= 0
  /\ reset_time = None => failure_count < max_failures
  /\ failure_count >= max_failures => reset_time # None

\* C18 witness: a failure report has just brought failure_count to
\* max_failures and reset_time is set
C18_Witness ==
  /\ failure_count = max_failures
  /\ reset_time = now + reset_interval
  /\ pc[1] = "returned" /\ op[1] = "record_failure"

\* thread t's call was rejected by the open-circuit check
Rejected(t) == pc[t] = "raised" /\ err[t].src = "circuit"

\* C19: the step in which the open-circuit check rejects a call of
\* create_db_engine, init_db or get_session changes neither failure_count nor
\* reset_time and reports nothing; a rejection that is a call's first check
\* leaves the call with no report made and the operation never invoked.
C19_RejectionLeavesBreaker ==
  [][\A t \in Threads :
       (GateStep(t) /\ Rejected(t)') =>
         /\ BreakerOpen
         /\ failure_count' = failure_count
         /\ reset_time' = reset_time
         /\ reports'[t] = reports[t]
         /\ invoked'[t] = invoked[t]
         /\ attempts[t] = 0 => reports[t] = <<>> /\ invoked[t] = 0]_vars

\* C19 witness: get_session was rejected at its check, the breaker being open
\* with the count and the reset time the trip left
C19_Witness ==
  /\ Rejected(1) /\ op[1] = "get_session"
  /\ reports[1] = <<>> /\ invoked[1] = 0
  /\ failure_count = max_failures
  /\ reset_time = reset_interval
  /\ now > 0

\* C13: the accesses of the threads to the breaker are atomic: when a thread
\* completes the increment of record_failure and no reset of the count has
\* come between its read and its write, failure_count grows by exactly one
\* (no report of a concurrent thread is lost); and the second read of
\* reset_time in is_open sees the value its first read saw, so that the check
\* ends as an uninterrupted is_open would end it.
C13_AtomicAccess ==
  [][\A t \in Threads :
       /\ (pc[t] = "rf_store" /\ pc'[t] = "rf_trip" /\ t \in fresh) =>
            failure_count' = failure_count + 1
       /\ (pc[t] = "check_time" /\ pc'[t] # "check_time") =>
            err'[t] # TypeErr]_vars

\* C14: while the breaker is open no step moves reset_time to another time:
\* it stays where the first trip set it until it is cleared.
C14_TripsOncePerWindow ==
  [][(BreakerOpen /\ reset_time' # None) => reset_time' = reset_time]_vars

\* the breaker is closed with a zero count and a guarded operation is under
\* way: a call has just passed the open-circuit check, or a session has just
\* been committed
ClosedAndAttempting ==
  /\ reset_time = None
  /\ failure_count = 0
  /\ \E t \in Threads : pc[t] \in {"action", "close"}

\* C20: with the clock running and the callers scheduled, every state in
\* which the breaker is OPEN is followed by a state in which reset_time is
\* None, failure_count is 0 and a guarded operation is under way.
C20_OpenEventuallyCloses == BreakerOpen ~> ClosedAndAttempting

\* C20 witness: a call that arrived at a tripped breaker after the cooldown
\* has passed the check, which closed the breaker and zeroed the count
C20_Witness ==
  /\ ClosedAndAttempting
  /\ now >= reset_interval
  /\ \E t \in Threads : pc[t] = "action" /\ entry_fc[t] >= max_failures

====
